---- MODULE Spec2Model ----
(***************************************************************************)
(* Model of the derivatives-analyzer scripts: iv_surface.py,               *)
(* options_greeks.py, perpetual_analysis.py and vol_signals.py.            *)
(*                                                                         *)
(* One run of one entry point is modelled.  A run is cut into actions at   *)
(* its blocking network calls: a fetch action (the try block around the    *)
(* provider call) and the in-memory report that follows it.               *)
(*                                                                         *)
(* Numbers.  Python floats are modelled as exact rationals <<n, d>> with   *)
(* d > 0; <<0, 0>> is NaN.  An implied volatility of 0.22 is the rational  *)
(* <<22, 100>>, a delta of -0.5 is <<-50, 100>>.  Prices, strikes, bids    *)
(* and asks are integers.  A band test strike >= price * 0.98 is computed  *)
(* as strike * 100 >= price * 98.                                          *)
(*                                                                         *)
(* Tables.  A fetch result is a record [kind, rows, cols, price]: kind is   *)
(* "raise" (the call raised), "none" (it returned None) or "table"; rows   *)
(* is the set of quote rows, one per contract (dte, strike, option_type);  *)
(* cols is the set of provider-dependent columns that are present; price   *)
(* is the value of the price column (the same in every row).  The          *)
(* expiration column is represented by dte, which orders the same way.     *)
(* Row order is not modelled: where the code takes .iloc[0] of a selection *)
(* that can hold more than one row, any of its rows may be taken.          *)
(***************************************************************************)
EXTENDS Integers, Sequences, FiniteSets, TLC

VARIABLES fn, args, pc, df, hist, out, calls, raised

vars == <<fn, args, pc, df, hist, out, calls, raised>>

(***************************************************************************)
(* Bounds of the model.                                                    *)
(***************************************************************************)
\* Rows of a table of the small input set.
MaxRows == 2

\* Rows of a table of the deep input set.
MaxDeepRows == 3

\* Expirations of the wide tables given to analyze_vol_signals.
NumWideVol == 7

\* Expirations of the wide tables given to analyze_iv_surface.
NumWideSurface == 10

(***************************************************************************)
(* Float arithmetic, as exact rationals.                                   *)
(***************************************************************************)
NaN == <<0, 0>>

Rat(n) == <<n, 1>>

IsNaN(a) == a[2] = 0

Gt(a, b) == ~IsNaN(a) /\ ~IsNaN(b) /\ a[1] * b[2] > b[1] * a[2]

Lt(a, b) == Gt(b, a)

RatEq(a, b) == ~IsNaN(a) /\ ~IsNaN(b) /\ a[1] * b[2] = b[1] * a[2]

Abs(x) == IF x < 0 THEN -x ELSE x

RECURSIVE Gcd(_, _)
Gcd(a, b) == IF b = 0 THEN a ELSE Gcd(b, a % b)

\* The rational n/d in lowest terms (d > 0).
Norm(n, d) == <<n \div Gcd(Abs(n), d), d \div Gcd(Abs(n), d)>>

Add(a, b) == IF IsNaN(a) \/ IsNaN(b) THEN NaN
             ELSE Norm(a[1] * b[2] + b[1] * a[2], a[2] * b[2])

Sub(a, b) == IF IsNaN(a) \/ IsNaN(b) THEN NaN
             ELSE Norm(a[1] * b[2] - b[1] * a[2], a[2] * b[2])

Mul(a, k) == IF IsNaN(a) THEN NaN ELSE Norm(a[1] * k, a[2])

Div(a, k) == IF IsNaN(a) \/ k = 0 THEN NaN ELSE Norm(a[1], a[2] * k)

(***************************************************************************)
(* DataFrame helpers.                                                      *)
(***************************************************************************)
RECURSIVE SumIV(_)
SumIV(S) ==
    IF S = {} THEN NaN
    ELSE LET r == CHOOSE x \in S : TRUE
             rest == SumIV(S \ {r})
         IN  IF IsNaN(rest) THEN r.implied_volatility
             ELSE Add(r.implied_volatility, rest)

\* Series.mean(): NaN entries are skipped; the mean of nothing is NaN.
MeanIV(S) ==
    LET known == {r \in S : ~IsNaN(r.implied_volatility)}
    IN  Div(SumIV(known), Cardinality(known))

RECURSIVE SortedSeq(_)
SortedSeq(S) ==
    IF S = {} THEN <<>>
    ELSE LET m == CHOOSE x \in S : \A y \in S : x <= y
         IN  <<m>> \o SortedSeq(S \ {m})

\* sorted(df['dte'].unique())
SortedUnique(S) == SortedSeq({r.dte : r \in S})

\* seq[:n]
Take(seq, n) == SubSeq(seq, 1, IF Len(seq) < n THEN Len(seq) ELSE n)

RECURSIVE Flatten(_)
Flatten(ss) == IF ss = <<>> THEN <<>> ELSE Head(ss) \o Flatten(Tail(ss))

\* (df['strike'] >= price * lo/100) & (df['strike'] <= price * hi/100)
InBand(S, price, lo, hi) ==
    {r \in S : r.strike * 100 >= price * lo /\ r.strike * 100 <= price * hi}

OfType(S, t) == {r \in S : r.option_type = t}

Empty(table) == table.rows = {}

(***************************************************************************)
(* Printed lines.  out is the sequence of lines printed so far; a line is  *)
(* a record whose msg field names the print statement.                     *)
(***************************************************************************)
Line(m) == [msg |-> m]

\* price_col = 'underlying_price' if 'underlying_price' in chains.columns
\*             else 'spot_price'
PriceCol(chains) ==
    IF "underlying_price" \in chains.cols THEN "underlying_price" ELSE "spot_price"

\* One provider call, and whether it raised.
Call(api, res) == [api |-> api, raised |-> res.kind = "raise"]

AfterFetchNoReturn(res, next) == next

\* except Exception: print(...); return -- otherwise the run goes on
AfterFetch(res, next) == IF res.kind = "raise" THEN "done" ELSE next

(***************************************************************************)
(* vol_signals.py: analyze_vol_signals                                     *)
(***************************************************************************)
VolValid(chains) ==
    {r \in chains.rows : /\ r.dte >= 1
                     /\ ~IsNaN(r.implied_volatility)
                     /\ Gt(r.implied_volatility, Rat(0))}

MeanPctUnguarded(S) == Mul(MeanIV(S), 100)

\* x['implied_volatility'].mean() * 100 if not x.empty else 0
MeanPctOrZero(S) == IF S # {} THEN Mul(MeanIV(S), 100) ELSE Rat(0)

RECURSIVE TsData(_, _, _)
TsData(exps, valid, price) ==
    IF exps = <<>> THEN <<>>
    ELSE LET dte == Head(exps)
             exp_data == {r \in valid : r.dte = dte}
             atm == InBand(exp_data, price, 98, 102)
         IN  (IF atm # {}
              THEN <<[dte |-> dte, atm_iv |-> Mul(MeanIV(atm), 100)]>>
              ELSE <<>>)
             \o TsData(Tail(exps), valid, price)

TsSpread(ts_data) == Sub(ts_data[Len(ts_data)].atm_iv, ts_data[1].atm_iv)

StructureInclusive(ts_spread) ==
    IF ~Lt(ts_spread, Rat(0)) THEN "CONTANGO" ELSE "BACKWARDATION"

Structure(ts_spread) ==
    IF Gt(ts_spread, Rat(0)) THEN "CONTANGO" ELSE "BACKWARDATION"

TermLines(ts_data) ==
    [i \in 1..Len(ts_data) |->
        [msg |-> "ATM IV", dte |-> ts_data[i].dte, atm_iv |-> ts_data[i].atm_iv]]
    \o (IF Len(ts_data) >= 2
        THEN <<[msg |-> "Structure",
                structure |-> Structure(TsSpread(ts_data)),
                spread |-> TsSpread(ts_data)]>>
             \o (IF Structure(TsSpread(ts_data)) = "CONTANGO"
                 THEN <<Line("Signal: Calendar spread opportunity")>>
                 ELSE <<>>)
        ELSE <<>>)

FlyLine(dte, valid, price) ==
    LET exp_data == {r \in valid : r.dte = dte}
        calls_ == OfType(exp_data, "call")
        puts == OfType(exp_data, "put")
        atm_iv == MeanPctOrZero(InBand(calls_, price, 98, 102))
        call_25d_iv == MeanPctOrZero(InBand(calls_, price, 103, 108))
        put_25d_iv == MeanPctOrZero(InBand(puts, price, 92, 97))
    IN  IF Gt(atm_iv, Rat(0)) /\ Gt(call_25d_iv, Rat(0)) /\ Gt(put_25d_iv, Rat(0))
        THEN <<[msg |-> "Fly", dte |-> dte,
                fly |-> Sub(Div(Add(call_25d_iv, put_25d_iv), 2), atm_iv),
                atm_iv |-> atm_iv,
                wings |-> Div(Add(call_25d_iv, put_25d_iv), 2)]>>
        ELSE <<>>

DirectionInclusive(skew) ==
    IF ~Lt(skew, Rat(2)) THEN "BEARISH"
    ELSE IF Lt(skew, Rat(-2)) THEN "BULLISH"
    ELSE "NEUTRAL"

Direction(skew) ==
    IF Gt(skew, Rat(2)) THEN "BEARISH"
    ELSE IF Lt(skew, Rat(-2)) THEN "BULLISH"
    ELSE "NEUTRAL"

SkewLine(dte, valid, price) ==
    LET exp_data == {r \in valid : r.dte = dte}
        calls_ == OfType(exp_data, "call")
        puts == OfType(exp_data, "put")
        call_iv == MeanPctOrZero(InBand(calls_, price, 103, 108))
        put_iv == MeanPctOrZero(InBand(puts, price, 92, 97))
    IN  IF Gt(call_iv, Rat(0)) /\ Gt(put_iv, Rat(0))
        THEN <<[msg |-> "Skew", dte |-> dte,
                skew |-> Sub(put_iv, call_iv),
                direction |-> Direction(Sub(put_iv, call_iv))]>>
        ELSE <<>>

\* abs(exp_data['strike'] - price) == abs(exp_data['strike'] - price).min()
Nearest(exp_data, price) ==
    {r \in exp_data :
        \A q \in exp_data : Abs(r.strike - price) <= Abs(q.strike - price)}

Mid(r) == Div(Rat(r.bid + r.ask), 2)

StraddleRecord(dte, c, p, price, cols) ==
    LET straddle_cost == Add(Mid(c), Mid(p))
        pct_move == Mul(Div(straddle_cost, price), 100)
        call_theta == IF "theta" \in cols THEN c.theta ELSE 0
        put_theta == IF "theta" \in cols THEN p.theta ELSE 0
    IN  [msg |-> "Straddle", dte |-> dte,
         straddle_cost |-> straddle_cost,
         pct_move |-> pct_move,
         total_theta |-> call_theta + put_theta,
         be_daily |-> Div(pct_move, dte)]

\* The lines one DTE can print: none, or one per row .iloc[0] can yield.
StraddleLines(dte, valid, price, cols) ==
    LET exp_data == {r \in valid : r.dte = dte}
        atm_call == OfType(Nearest(exp_data, price), "call")
        atm_put == OfType(Nearest(exp_data, price), "put")
    IN  IF atm_call # {} /\ atm_put # {}
        THEN {<<StraddleRecord(dte, c, p, price, cols)>> :
                 c \in atm_call, p \in atm_put}
        ELSE {<<>>}

RECURSIVE StraddleSection(_, _, _, _)
StraddleSection(exps, valid, price, cols) ==
    IF exps = <<>> THEN {<<>>}
    ELSE {h \o t : h \in StraddleLines(Head(exps), valid, price, cols),
                   t \in StraddleSection(Tail(exps), valid, price, cols)}

SummaryLines(ts_data) ==
    LET signals ==
          IF Len(ts_data) >= 2
          THEN IF Gt(TsSpread(ts_data), Rat(2))
               THEN <<Line("[+] Strong Contango: Sell calendar spreads")>>
               ELSE IF Lt(TsSpread(ts_data), Rat(-2))
               THEN <<Line("[+] Backwardation: Vol compression expected")>>
               ELSE <<>>
          ELSE <<>>
    IN  <<Line("TRADING SIGNALS SUMMARY")>>
        \o (IF signals # <<>> THEN signals
            ELSE <<Line("No strong signals detected")>>)

\* Everything analyze_vol_signals prints after a fetch that did not raise.
VolReportLines(chains) ==
    IF chains.kind = "none" \/ Empty(chains) THEN {<<Line("No options data available")>>}
    ELSE IF PriceCol(chains) \notin chains.cols
    THEN {<<Line("Cannot determine underlying price")>>}
    ELSE LET price == chains.price
             valid == VolValid(chains)
             expirations == SortedUnique(valid)
             ts_data == TsData(Take(expirations, 6), valid, price)
             first3 == Take(expirations, 3)
         IN  IF valid = {} THEN {<<Line("No valid options data")>>}
             ELSE {<<[msg |-> "Underlying", price |-> price],
                     [msg |-> "Expirations", dtes |-> Take(expirations, 8)],
                     Line("TERM STRUCTURE")>>
                   \o TermLines(ts_data)
                   \o <<Line("FLY ANALYSIS")>>
                   \o Flatten([i \in 1..Len(first3) |->
                                  FlyLine(first3[i], valid, price)])
                   \o <<Line("SKEW ANALYSIS")>>
                   \o Flatten([i \in 1..Len(first3) |->
                                  SkewLine(first3[i], valid, price)])
                   \o <<Line("ATM STRADDLE ANALYSIS")>>
                   \o s
                   \o SummaryLines(ts_data)
                   : s \in StraddleSection(first3, valid, price, chains.cols)}

VolFetch(Results) ==
    /\ fn = "analyze_vol_signals"
    /\ pc = "start"
    /\ \E res \in Results :
         /\ calls' = Append(calls, Call("options.chains", res))
         /\ IF res.kind = "raise"
            THEN /\ out' = out \o <<Line("VOLATILITY SIGNALS"),
                                    Line("Error fetching data")>>
                 /\ df' = df
            ELSE /\ out' = out \o <<Line("VOLATILITY SIGNALS")>>
                 /\ df' = res
         /\ pc' = AfterFetch(res, "fetched")
    /\ UNCHANGED <<fn, args, hist, raised>>

VolReport ==
    /\ fn = "analyze_vol_signals"
    /\ pc = "fetched"
    /\ \E lines \in VolReportLines(df) : out' = out \o lines
    /\ pc' = "done"
    /\ UNCHANGED <<fn, args, df, hist, calls, raised>>

(***************************************************************************)
(* iv_surface.py: analyze_iv_surface, plot_iv_surface                      *)
(***************************************************************************)
SurfaceValid(chains) ==
    {r \in chains.rows : /\ r.dte >= 7
                         /\ r.dte <= 180
                         /\ ~IsNaN(r.implied_volatility)
                         /\ Gt(r.implied_volatility, Rat(0))}

IvRecord(exp, valid, price) ==
    LET exp_data == {r \in valid : r.dte = exp}
    IN  [expiration |-> exp,
         dte |-> exp,
         atm_iv |-> MeanPctOrZero(InBand(exp_data, price, 98, 102)),
         call_iv |-> MeanPctOrZero(OfType(exp_data, "call")),
         put_iv |-> MeanPctOrZero(OfType(exp_data, "put"))]

IvData(valid, price) ==
    LET expirations == Take(SortedUnique(valid), 8)
    IN  [i \in 1..Len(expirations) |-> IvRecord(expirations[i], valid, price)]

SurfaceDirection(skew) ==
    IF Gt(skew, Rat(2)) THEN "Bearish"
    ELSE IF Lt(skew, Rat(-2)) THEN "Bullish"
    ELSE "Neutral"

SurfaceLines(valid, price) ==
    LET iv_data == IvData(valid, price)
    IN  <<[msg |-> "Underlying", price |-> price],
          Line("IV SUMMARY BY EXPIRATION")>>
        \o [i \in 1..Len(iv_data) |->
               [msg |-> "IV Summary",
                expiration |-> iv_data[i].expiration,
                dte |-> iv_data[i].dte,
                atm_iv |-> iv_data[i].atm_iv,
                call_iv |-> iv_data[i].call_iv,
                put_iv |-> iv_data[i].put_iv]]
        \o <<Line("IV SKEW (Put IV - Call IV)")>>
        \o [i \in 1..Len(iv_data) |->
               [msg |-> "IV Skew",
                expiration |-> iv_data[i].expiration,
                skew |-> Sub(iv_data[i].put_iv, iv_data[i].call_iv),
                direction |->
                    SurfaceDirection(Sub(iv_data[i].put_iv, iv_data[i].call_iv))]]

SurfaceFetch(Results) ==
    /\ fn = "analyze_iv_surface"
    /\ pc = "start"
    /\ \E res \in Results :
         /\ calls' = Append(calls, Call("options.chains", res))
         /\ IF res.kind = "raise"
            THEN /\ out' = out \o <<Line("Fetching options chain"),
                                    Line("Error fetching options chain")>>
                 /\ df' = df
            ELSE /\ out' = out \o <<Line("Fetching options chain")>>
                 /\ df' = res
         /\ pc' = AfterFetch(res, "fetched")
    /\ UNCHANGED <<fn, args, hist, raised>>

SurfaceReport ==
    /\ fn = "analyze_iv_surface"
    /\ pc = "fetched"
    /\ IF df.kind = "none" \/ Empty(df)
       THEN /\ out' = Append(out, Line("No options data"))
            /\ pc' = "done"
            /\ raised' = raised
       ELSE IF "underlying_price" \notin df.cols
       THEN \* chains['underlying_price'] raises KeyError, which nothing catches
            /\ raised' = "KeyError"
            /\ pc' = "done"
            /\ out' = out
       ELSE IF SurfaceValid(df) = {}
       THEN /\ out' = Append(out, Line("No valid IV data found"))
            /\ pc' = "done"
            /\ raised' = raised
       ELSE /\ out' = out \o SurfaceLines(SurfaceValid(df), df.price)
            /\ pc' = IF args.plot THEN "plot" ELSE "done"
            /\ raised' = raised
    /\ UNCHANGED <<fn, args, df, hist, calls>>

\* calls = the call rows of data with strike within 80%-120% of price
SurfacePlotCalls(data, price) == InBand(OfType(data, "call"), price, 80, 120)

SurfacePlotLineLower(matplotlib, calls_) ==
    IF ~matplotlib
    THEN Line("matplotlib not installed. Skipping visualization.")
    ELSE IF Cardinality(calls_) < 9
    THEN Line("Not enough data for surface plot")
    ELSE [msg |-> "plt.show", points |-> Cardinality(calls_)]

\* What plot_iv_surface prints or shows.
SurfacePlotLine(matplotlib, calls_) ==
    IF ~matplotlib
    THEN Line("matplotlib not installed. Skipping visualization.")
    ELSE IF Cardinality(calls_) < 10
    THEN Line("Not enough data for surface plot")
    ELSE [msg |-> "plt.show", points |-> Cardinality(calls_)]

\* plot_iv_surface(valid, price, symbol); matplotlib may or may not import.
SurfacePlot ==
    /\ fn = "analyze_iv_surface"
    /\ pc = "plot"
    /\ \E matplotlib \in BOOLEAN :
         out' = Append(out, SurfacePlotLine(matplotlib,
                                SurfacePlotCalls(SurfaceValid(df), df.price)))
    /\ pc' = "done"
    /\ UNCHANGED <<fn, args, df, hist, calls, raised>>

(***************************************************************************)
(* options_greeks.py: analyze_options_greeks, plot_greeks                  *)
(***************************************************************************)
GreeksValidExclusive(chains, min_dte, max_dte) ==
    {r \in chains.rows : /\ r.dte > min_dte
                         /\ r.dte <= max_dte
                         /\ ~RatEq(r.delta, Rat(0))
                         /\ ~RatEq(r.delta, Rat(1))
                         /\ ~RatEq(r.delta, Rat(-1))}

GreeksValid(chains, min_dte, max_dte) ==
    {r \in chains.rows : /\ r.dte >= min_dte
                         /\ r.dte <= max_dte
                         /\ ~RatEq(r.delta, Rat(0))
                         /\ ~RatEq(r.delta, Rat(1))
                         /\ ~RatEq(r.delta, Rat(-1))}

\* selected = valid[valid['expiration'] == sorted(expirations)[0]]
Selected(valid) == {r \in valid : r.dte = SortedUnique(valid)[1]}

\* strike within [price * (1 - pct_range), price * (1 + pct_range)];
\* pct_range is held in percent
AtmRows(selected, option_type, price, pct_range) ==
    InBand(OfType(selected, option_type), price, 100 - pct_range, 100 + pct_range)

\* Columns every options chain carries; the others are listed in cols.
BaseCols == {"strike", "implied_volatility", "bid", "ask"}

Available(chains) ==
    SelectSeq(<<"strike", "delta", "gamma", "theta", "vega",
                "implied_volatility", "bid", "ask">>,
              LAMBDA c : c \in BaseCols \cup chains.cols)

\* df[available]: the rows cut down to the available columns
Project(S, available) ==
    {[i \in 1..Len(available) |-> r[available[i]]] : r \in S}

GreeksLines(chains, a) ==
    LET price == chains.price
        valid == GreeksValid(chains, a.min_dte, a.max_dte)
        selected == Selected(valid)
        calls_ == AtmRows(selected, "call", price, a.pct_range)
        puts == AtmRows(selected, "put", price, a.pct_range)
        available == Available(chains)
    IN  <<[msg |-> "Expiration", expiry |-> SortedUnique(valid)[1],
           dte |-> SortedUnique(valid)[1]],
          [msg |-> "Total contracts", n |-> Cardinality(selected)],
          Line("ATM CALLS"),
          IF calls_ # {}
          THEN [msg |-> "table", columns |-> available, rows |-> calls_,
                cells |-> Project(calls_, available)]
          ELSE Line("No ATM calls found"),
          Line("ATM PUTS"),
          IF puts # {}
          THEN [msg |-> "table", columns |-> available, rows |-> puts,
                cells |-> Project(puts, available)]
          ELSE Line("No ATM puts found")>>

GreeksFetch(Results) ==
    /\ fn = "analyze_options_greeks"
    /\ pc = "start"
    /\ \E res \in Results :
         /\ calls' = Append(calls, Call("options.chains", res))
         /\ IF res.kind = "raise"
            THEN /\ out' = out \o <<Line("Fetching options chain"),
                                    Line("Error fetching options chain")>>
                 /\ df' = df
            ELSE /\ out' = out \o <<Line("Fetching options chain")>>
                 /\ df' = res
         /\ pc' = AfterFetch(res, "fetched")
    /\ UNCHANGED <<fn, args, hist, raised>>

GreeksReport ==
    /\ fn = "analyze_options_greeks"
    /\ pc = "fetched"
    /\ IF df.kind = "none" \/ Empty(df)
       THEN /\ out' = Append(out, Line("No options data"))
            /\ pc' = "done"
            /\ raised' = raised
       ELSE IF PriceCol(df) \notin df.cols
       THEN /\ out' = Append(out, Line("Cannot determine underlying price from data"))
            /\ pc' = "done"
            /\ raised' = raised
       ELSE IF "delta" \notin df.cols
       THEN \* chains['delta'] raises KeyError, which nothing catches
            /\ out' = Append(out, [msg |-> "Underlying Price", price |-> df.price])
            /\ raised' = "KeyError"
            /\ pc' = "done"
       ELSE IF GreeksValid(df, args.min_dte, args.max_dte) = {}
       THEN /\ out' = out \o <<[msg |-> "Underlying Price", price |-> df.price],
                               Line("No valid options found with Greeks data")>>
            /\ pc' = "done"
            /\ raised' = raised
       ELSE /\ out' = out \o <<[msg |-> "Underlying Price", price |-> df.price]>>
                          \o GreeksLines(df, args)
            /\ pc' = IF args.visualize THEN "plot" ELSE "done"
            /\ raised' = raised
    /\ UNCHANGED <<fn, args, df, hist, calls>>

\* calls = the call rows of data with strike within 85%-115% of price
GreeksPlotCalls(data, price) == InBand(OfType(data, "call"), price, 85, 115)

\* What plot_greeks prints or shows: one panel per Greek column present.
GreeksPlotLine(matplotlib, calls_, cols) ==
    IF ~matplotlib
    THEN Line("matplotlib not installed. Skipping visualization.")
    ELSE IF calls_ = {}
    THEN Line("Not enough data for visualization")
    ELSE [msg |-> "plt.show",
          panels |-> {"delta", "gamma", "theta", "vega"} \cap cols]

\* plot_greeks(selected, price, expiry); matplotlib may or may not import.
GreeksPlot ==
    /\ fn = "analyze_options_greeks"
    /\ pc = "plot"
    /\ \E matplotlib \in BOOLEAN :
         LET selected == Selected(GreeksValid(df, args.min_dte, args.max_dte))
         IN  out' = Append(out, GreeksPlotLine(matplotlib,
                                    GreeksPlotCalls(selected, df.price), df.cols))
    /\ pc' = "done"
    /\ UNCHANGED <<fn, args, df, hist, calls, raised>>

(***************************************************************************)
(* vol_signals.py: calculate_vrp                                           *)
(*                                                                         *)
(* The historical series is a record [kind, len, rv]: len is len(hist) and *)
(* rv is returns.std() * (252 ** 0.5) * 100 of its trailing lookback_days  *)
(* returns, NaN when the standard deviation is undefined.                  *)
(***************************************************************************)
VrpSignalInclusive(vrp) ==
    IF Gt(vrp, Rat(5)) THEN "HIGH VRP"
    ELSE IF ~Gt(vrp, Rat(-5)) THEN "NEGATIVE VRP"
    ELSE "NEUTRAL VRP"

VrpSignal(vrp) ==
    IF Gt(vrp, Rat(5)) THEN "HIGH VRP"
    ELSE IF Lt(vrp, Rat(-5)) THEN "NEGATIVE VRP"
    ELSE "NEUTRAL VRP"

\* atm: the 25-35 DTE rows with a strike within 2% of the price
MonthAtmAnyDte(chains) == InBand(chains.rows, chains.price, 98, 102)

\* atm = the rows with 25 <= dte <= 35 and strike within 98%-102% of price
MonthAtm(chains) ==
    InBand({r \in chains.rows : r.dte >= 25 /\ r.dte <= 35},
           chains.price, 98, 102)

Iv30d(chains) == Mul(MeanIV(MonthAtm(chains)), 100)

VrpFetch(Results) ==
    /\ fn = "calculate_vrp"
    /\ pc = "start"
    /\ \E res \in Results :
         /\ calls' = Append(calls, Call("options.chains", res))
         /\ IF res.kind = "raise"
            THEN /\ out' = out \o <<Line("VRP ANALYSIS"),
                                    [msg |-> "Error", e |-> "fetch"]>>
                 /\ df' = df
            ELSE /\ out' = out \o <<Line("VRP ANALYSIS")>>
                 /\ df' = res
         /\ pc' = AfterFetch(res, "fetched")
    /\ UNCHANGED <<fn, args, hist, raised>>

\* From the chain to the 30-day IV line, up to the historical-price call.
VrpImplied ==
    /\ fn = "calculate_vrp"
    /\ pc = "fetched"
    /\ IF df.kind = "none" \/ Empty(df)
       THEN /\ out' = Append(out, Line("No options data"))
            /\ pc' = "done"
       ELSE IF PriceCol(df) \notin df.cols
       THEN \* chains[price_col] raises KeyError inside the try block
            /\ out' = Append(out, [msg |-> "Error", e |-> "KeyError"])
            /\ pc' = "done"
       ELSE IF MonthAtm(df) = {}
       THEN /\ out' = Append(out, Line("No ATM options for 30-day expiry"))
            /\ pc' = "done"
       ELSE /\ out' = Append(out, [msg |-> "30-Day IV", iv_30d |-> Iv30d(df)])
            /\ pc' = "iv_printed"
    /\ UNCHANGED <<fn, args, df, hist, calls, raised>>

VrpFetchHist(Results) ==
    /\ fn = "calculate_vrp"
    /\ pc = "iv_printed"
    /\ \E res \in Results :
         /\ calls' = Append(calls, Call("equity.price.historical", res))
         /\ IF res.kind = "raise"
            THEN /\ out' = Append(out, [msg |-> "Error", e |-> "fetch"])
                 /\ hist' = hist
            ELSE /\ out' = out
                 /\ hist' = res
         /\ pc' = AfterFetch(res, "hist_fetched")
    /\ UNCHANGED <<fn, args, df, raised>>

VrpLines(chains, h) ==
    LET iv_30d == Iv30d(chains)
        rv_30d == h.rv
        vrp == Sub(iv_30d, rv_30d)
    IN  <<[msg |-> "30-Day RV", rv_30d |-> rv_30d],
          [msg |-> "VRP", vrp |-> vrp, iv_30d |-> iv_30d, rv_30d |-> rv_30d],
          [msg |-> "Signal", signal |-> VrpSignal(vrp)]>>

VrpReport ==
    /\ fn = "calculate_vrp"
    /\ pc = "hist_fetched"
    /\ IF hist.kind = "none" \/ hist.len < args.lookback_days
       THEN out' = Append(out, Line("Insufficient historical data for RV"))
       ELSE out' = out \o VrpLines(df, hist)
    /\ pc' = "done"
    /\ UNCHANGED <<fn, args, df, hist, calls, raised>>

(***************************************************************************)
(* perpetual_analysis.py: analyze_perpetuals, list_instruments             *)
(*                                                                         *)
(* The rows of these tables are kept in order (a sequence).  A symbol is   *)
(* the sequence of its dash-separated parts, <<"BTC", "PERPETUAL">>.       *)
(***************************************************************************)
PerpCols == <<"symbol", "last_price", "mark_price", "current_funding",
              "funding_8h", "open_interest", "volume_usd", "change_percent">>

\* row.get(c) or 0: a missing column gives None, and None or 0 is 0
GetOrZero(row, c, cols) ==
    IF c \notin cols \/ RatEq(row[c], Rat(0)) THEN Rat(0) ELSE row[c]

PerpRowLines(row, cols) ==
    <<[msg |-> "Symbol",
       sym |-> IF "symbol" \in cols THEN row.symbol ELSE <<"N/A">>],
      [msg |-> "Last Price", v |-> GetOrZero(row, "last_price", cols)],
      [msg |-> "Mark Price", v |-> GetOrZero(row, "mark_price", cols)],
      [msg |-> "Funding Rate",
       v |-> Mul(GetOrZero(row, "current_funding", cols), 100),
       v8h |-> Mul(GetOrZero(row, "funding_8h", cols), 100)],
      [msg |-> "Open Interest", v |-> GetOrZero(row, "open_interest", cols)],
      [msg |-> "24h Volume", v |-> GetOrZero(row, "volume_usd", cols)],
      [msg |-> "24h Change", v |-> GetOrZero(row, "change_percent", cols)]>>

PerpLines(info, show_all) ==
    LET available == SelectSeq(PerpCols, LAMBDA c : c \in info.cols)
    IN  <<Line("CRYPTO PERPETUAL ANALYSIS")>>
        \o Flatten([i \in 1..Len(info.rows) |->
                       PerpRowLines(info.rows[i], info.cols)])
        \o (IF show_all
            THEN <<Line("Raw Data"),
                   [msg |-> "table", columns |-> available, rows |-> info.rows]>>
            ELSE <<>>)

PerpFetch(Results) ==
    /\ fn = "analyze_perpetuals"
    /\ pc = "start"
    /\ \E res \in Results :
         /\ calls' = Append(calls, Call("futures.info", res))
         /\ IF res.kind = "raise"
            THEN /\ out' = Append(out, Line("Error fetching data for"))
                 /\ df' = df
            ELSE /\ out' = out
                 /\ df' = res
         /\ pc' = AfterFetch(res, "fetched")
    /\ UNCHANGED <<fn, args, hist, raised>>

PerpReport ==
    /\ fn = "analyze_perpetuals"
    /\ pc = "fetched"
    /\ IF df.kind = "none" \/ Len(df.rows) = 0
       THEN out' = Append(out, Line("No data for"))
       ELSE out' = out \o PerpLines(df, args.show_all)
    /\ pc' = "done"
    /\ UNCHANGED <<fn, args, df, hist, calls, raised>>

\* instruments['symbol'].str.contains('PERPETUAL', na=False)
Perps(instruments) ==
    SelectSeq(instruments.rows,
              LAMBDA r : \E i \in 1..Len(r.symbol) : r.symbol[i] = "PERPETUAL")

ListFetch(Results) ==
    /\ fn = "list_instruments"
    /\ pc = "start"
    /\ \E res \in Results :
         /\ calls' = Append(calls, Call("futures.instruments", res))
         /\ IF res.kind = "raise"
            THEN /\ out' = Append(out, Line("Error fetching instruments"))
                 /\ df' = df
            ELSE /\ out' = out
                 /\ df' = res
         /\ pc' = AfterFetch(res, "fetched")
    /\ UNCHANGED <<fn, args, hist, raised>>

\* Lines 63-66: no test of None or of an empty table precedes the filter.
ListReport ==
    /\ fn = "list_instruments"
    /\ pc = "fetched"
    /\ IF df.kind = "none"
       THEN \* None['symbol'] raises TypeError
            /\ raised' = "TypeError"
            /\ out' = out
       ELSE IF "symbol" \notin df.cols
       THEN /\ raised' = "KeyError"
            /\ out' = out
       ELSE IF ~({"symbol", "last_price", "open_interest"} \subseteq df.cols)
       THEN /\ raised' = "KeyError"
            /\ out' = Append(out, Line("Available Perpetual Contracts:"))
       ELSE /\ raised' = raised
            /\ out' = out \o <<Line("Available Perpetual Contracts:"),
                               [msg |-> "table",
                                columns |-> <<"symbol", "last_price", "open_interest">>,
                                rows |-> Perps(df)]>>
    /\ pc' = "done"
    /\ UNCHANGED <<fn, args, df, hist, calls>>

(***************************************************************************)
(* Inputs: what the provider can answer.                                   *)
(***************************************************************************)
Quote(iv, delta, bid, ask, theta) ==
    [iv |-> iv, delta |-> delta, bid |-> bid, ask |-> ask, theta |-> theta]

CallA == Quote(<<20, 100>>, <<50, 100>>, 4, 6, -2)
CallC == Quote(<<25, 100>>, <<1, 1>>, 6, 8, -3)
PutB == Quote(<<22, 100>>, <<-50, 100>>, 3, 5, -1)
PutD == Quote(<<23, 100>>, <<-1, 1>>, 1, 2, -4)

QuotesOf(option_type) == IF option_type = "call" THEN {CallA, CallC} ELSE {PutB, PutD}

Row(dte, strike, option_type, q) ==
    [dte |-> dte, strike |-> strike, option_type |-> option_type,
     implied_volatility |-> q.iv, delta |-> q.delta,
     gamma |-> <<2, 100>>, theta |-> q.theta, vega |-> <<10, 100>>,
     bid |-> q.bid, ask |-> q.ask]

Grid(dtes, strikes, types) ==
    UNION {{Row(d, k, t, q) : q \in QuotesOf(t)} :
              d \in dtes, k \in strikes, t \in types}

SameContract(r, q) ==
    r.dte = q.dte /\ r.strike = q.strike /\ r.option_type = q.option_type

\* The tables of at most n rows over universe U, one row per contract.
RECURSIVE TablesUpTo(_, _)
TablesUpTo(U, n) ==
    IF n = 0 THEN {{}}
    ELSE LET smaller == TablesUpTo(U, n - 1)
         IN  smaller \cup
             UNION {{t \cup {r} : r \in {u \in U : \A q \in t : ~SameContract(u, q)}} :
                       t \in smaller}

Table(rows, cols, price) ==
    [kind |-> "table", rows |-> rows, cols |-> cols, price |-> price]

NoTable(kind) == [kind |-> kind, rows |-> {}, cols |-> {}, price |-> 0]

Greeks == {"delta", "gamma", "theta", "vega"}

FullCols == {"underlying_price"} \cup Greeks

ColSets ==
    {p \cup g : p \in {{"underlying_price"}, {"spot_price"}, {},
                        {"underlying_price", "spot_price"}},
                g \in {Greeks, {}, {"delta", "gamma"}, {"gamma", "theta", "vega"}}}

\* Small input set: few rows, every combination of columns.
SmallRows ==
    {Row(30, 100, "call", CallA), Row(30, 100, "put", PutB),
     Row(30, 105, "call", CallC), Row(0, 100, "call", CallA),
     Row(30, 95, "put", Quote(NaN, <<0, 1>>, 3, 5, -1))}

SmallResults ==
    {NoTable("raise"), NoTable("none")}
    \cup {Table(t, c, 100) : t \in TablesUpTo(SmallRows, MaxRows), c \in ColSets}

\* Deep input sets: all columns present, rows chosen for each entry point.
VolRows ==
    Grid({7, 30}, {95, 100, 105}, {"call", "put"})
    \cup {Row(0, 100, "call", CallA),
          Row(1, 100, "call", Quote(NaN, <<50, 100>>, 4, 6, -2)),
          Row(1, 100, "put", Quote(<<0, 100>>, <<-50, 100>>, 3, 5, -1)),
          Row(1, 105, "put", PutB)}

SurfaceRows ==
    Grid({7, 30}, {100, 105}, {"call", "put"})
    \cup {Row(6, 100, "call", CallA), Row(180, 100, "put", PutB),
          Row(181, 100, "call", CallA),
          Row(30, 95, "call", Quote(NaN, <<50, 100>>, 4, 6, -2)),
          Row(30, 95, "put", Quote(<<0, 100>>, <<-50, 100>>, 3, 5, -1))}

GreeksRows ==
    {Row(d, k, "call", CallA) : d \in {7, 30}, k \in {95, 100, 105}}
    \cup {Row(d, k, "put", PutB) : d \in {7, 30}, k \in {95, 100, 105}}
    \cup {Row(7, 94, "call", CallA), Row(7, 106, "put", PutB),
          Row(6, 100, "call", CallA), Row(60, 100, "put", PutB),
          Row(61, 100, "call", CallA),
          Row(7, 90, "call", CallC), Row(7, 110, "put", PutD),
          Row(7, 110, "call", Quote(<<20, 100>>, <<0, 1>>, 4, 6, -2)),
          Row(7, 84, "call", CallA)}

VrpRows ==
    Grid({30}, {100, 105}, {"call", "put"})
    \cup {Row(24, 100, "call", CallA), Row(25, 100, "put", PutB),
          Row(35, 100, "call", CallC), Row(36, 100, "put", PutD),
          Row(30, 98, "call", Quote(NaN, <<50, 100>>, 4, 6, -2))}

DeepResults(U) == {Table(t, FullCols, 100) : t \in TablesUpTo(U, MaxDeepRows)}

\* Wide input sets: many expirations, each absent or holding a fixed slice.
WideVolSlice(i, choice) ==
    IF choice = 0 THEN {}
    ELSE IF choice = 1
    THEN {Row(10 * i, 100, "call", IF i % 2 = 1 THEN CallA ELSE CallC),
          Row(10 * i, 100, "put", IF i % 2 = 1 THEN PutB ELSE PutD)}
    ELSE {Row(10 * i, 105, "call", CallA), Row(10 * i, 95, "put", PutD)}

WideVolResults ==
    {Table(UNION {WideVolSlice(i, m[i]) : i \in 1..NumWideVol}, FullCols, 100) :
        m \in [1..NumWideVol -> {0, 1, 2}]}

WideSurfaceCall(i, strike) ==
    Row(10 * i, strike, "call", IF i % 2 = 1 THEN CallA ELSE CallC)

\* Every subset of the expirations at strike 100, and the full set with one
\* expiration moved to strike 121.
WideSurfaceResults ==
    {Table({WideSurfaceCall(i, 100) : i \in S}, FullCols, 100) :
        S \in SUBSET (1..NumWideSurface)}
    \cup {Table({WideSurfaceCall(i, IF i = j THEN 121 ELSE 100) :
                     i \in 1..NumWideSurface}, FullCols, 100) :
              j \in 1..NumWideSurface}

Series(len, rv) == [kind |-> "table", len |-> len, rv |-> rv]

NoSeries(kind) == [kind |-> kind, len |-> 0, rv |-> NaN]

HistSeries ==
    {NoSeries("raise"), NoSeries("none"), Series(0, NaN), Series(29, Rat(18))}
    \cup {Series(30, rv) : rv \in {Rat(18), Rat(20), Rat(25), Rat(26), NaN}}
    \cup {Series(31, <<2001, 100>>)}

PerpRow(name, last, funding) ==
    [symbol |-> name, last_price |-> last, mark_price |-> last,
     current_funding |-> funding, funding_8h |-> funding,
     open_interest |-> Rat(1000), volume_usd |-> Rat(0),
     change_percent |-> NaN]

PerpRows ==
    {PerpRow(<<"BTC", "PERPETUAL">>, Rat(50000), <<1, 10000>>),
     PerpRow(<<"ETH", "PERPETUAL">>, Rat(0), <<-1, 10000>>),
     PerpRow(<<"BTC", "27DEC24">>, Rat(51000), Rat(0)),
     PerpRow(<<>>, NaN, NaN)}

PerpSeqs ==
    {<<>>} \cup {<<r>> : r \in PerpRows} \cup {<<r, q>> : r \in PerpRows, q \in PerpRows}

PerpColSets ==
    {{}, {"symbol"}, {"symbol", "last_price", "open_interest"},
     {"symbol", "last_price", "mark_price", "current_funding", "funding_8h",
      "open_interest", "volume_usd", "change_percent"}}

NoInfo(kind) == [kind |-> kind, rows |-> <<>>, cols |-> {}, price |-> 0]

PerpResults ==
    {NoInfo("raise"), NoInfo("none")}
    \cup {Table(rows, c, 0) : rows \in PerpSeqs, c \in PerpColSets}

(***************************************************************************)
(* The run.                                                                *)
(***************************************************************************)
DefaultArgs ==
    [plot |-> TRUE, min_dte |-> 7, max_dte |-> 60, pct_range |-> 5,
     visualize |-> FALSE, show_all |-> FALSE, lookback_days |-> 30]

ArgsFor(f) ==
    CASE f = "analyze_iv_surface" ->
           {[DefaultArgs EXCEPT !.plot = b] : b \in BOOLEAN}
      [] f = "analyze_options_greeks" ->
           {[DefaultArgs EXCEPT !.visualize = b, !.min_dte = w[1],
                                !.max_dte = w[2], !.pct_range = w[3]] :
               b \in BOOLEAN, w \in {<<7, 60, 5>>, <<30, 30, 10>>}}
      [] f = "analyze_perpetuals" ->
           {[DefaultArgs EXCEPT !.show_all = b] : b \in BOOLEAN}
      [] OTHER -> {DefaultArgs}

OptionFns ==
    {"analyze_iv_surface", "analyze_options_greeks", "analyze_vol_signals",
     "calculate_vrp"}

Fns == OptionFns \cup {"analyze_perpetuals", "list_instruments"}

InitOf(fns) ==
    /\ fn \in fns
    /\ args \in ArgsFor(fn)
    /\ pc = "start"
    /\ df = NoTable("unset")
    /\ hist = NoSeries("unset")
    /\ out = <<>>
    /\ calls = <<>>
    /\ raised = "none"

Init == InitOf(Fns)

Next ==
    \/ SurfaceFetch(SmallResults)
    \/ SurfaceReport
    \/ SurfacePlot
    \/ GreeksFetch(SmallResults)
    \/ GreeksReport
    \/ GreeksPlot
    \/ VolFetch(SmallResults)
    \/ VolReport
    \/ VrpFetch(SmallResults)
    \/ VrpImplied
    \/ VrpFetchHist(HistSeries)
    \/ VrpReport
    \/ PerpFetch(PerpResults)
    \/ PerpReport
    \/ ListFetch(PerpResults)
    \/ ListReport

Spec == Init /\ [][Next]_vars

\* The option entry points on the deep and wide input sets.
InitRich == InitOf(OptionFns)

NextRich ==
    \/ SurfaceFetch(DeepResults(SurfaceRows) \cup WideSurfaceResults)
    \/ SurfaceReport
    \/ SurfacePlot
    \/ GreeksFetch(DeepResults(GreeksRows))
    \/ GreeksReport
    \/ GreeksPlot
    \/ VolFetch(DeepResults(VolRows) \cup WideVolResults)
    \/ VolReport
    \/ VrpFetch(DeepResults(VrpRows))
    \/ VrpImplied
    \/ VrpFetchHist(HistSeries)
    \/ VrpReport

SpecRich == InitRich /\ [][NextRich]_vars

(***************************************************************************)
(* Properties.                                                             *)
(***************************************************************************)
Msgs == {out[i].msg : i \in 1..Len(out)}

LastMsg == IF out = <<>> THEN "" ELSE out[Len(out)].msg

\* Lines printed before the first provider call returns.
BannerMsgs == {"VOLATILITY SIGNALS", "VRP ANALYSIS", "Fetching options chain"}

NoDataMsgs == {"No options data available", "No options data", "No data for"}

FetchErrorMsgs ==
    {"Error fetching data", "Error fetching options chain",
     "Error fetching data for", "Error fetching instruments", "Error"}

\* The first fetch returned, and returned None or a table without rows.
NoData ==
    \/ df.kind = "none"
    \/ /\ df.kind = "table"
       /\ IF fn \in OptionFns THEN df.rows = {} ELSE Len(df.rows) = 0

\* calculate_vrp's except clause printed a KeyError.
KeyErrorPrinted == \E i \in 1..Len(out) : out[i].msg = "Error" /\ out[i].e = "KeyError"

\* C1: in analyze_iv_surface, analyze_options_greeks, analyze_vol_signals and
\* calculate_vrp, a non-empty chain that has spot_price but not
\* underlying_price is processed without an exception and without the
\* "cannot determine price" exit; a chain with neither column ends the run
\* with a printed message and no exception.  (Chains with every Greek column,
\* so that only the price column is in question.)
C1_ColumnResolution ==
    (/\ pc = "done"
     /\ fn \in OptionFns
     /\ df.kind = "table"
     /\ df.rows # {}
     /\ Greeks \subseteq df.cols)
    => /\ raised = "none"
       /\ "spot_price" \in df.cols
          => /\ "Cannot determine underlying price" \notin Msgs
             /\ "Cannot determine underlying price from data" \notin Msgs
             /\ ~KeyErrorPrinted
       /\ ("spot_price" \notin df.cols /\ "underlying_price" \notin df.cols)
          => \/ LastMsg \in {"Cannot determine underlying price",
                              "Cannot determine underlying price from data"}
             \/ (LastMsg = "Error" /\ KeyErrorPrinted)

\* C2: in every entry point, when the fetch returns None or an empty table the
\* run ends without an exception, having printed exactly one no-data message
\* after its banner and nothing else; an absent or empty price history ends
\* calculate_vrp with the insufficient-data message.
C2_EmptyData ==
    /\ (pc = "done" /\ NoData)
       => /\ raised = "none"
          /\ LastMsg \in NoDataMsgs
          /\ \A i \in 1..(Len(out) - 1) : out[i].msg \in BannerMsgs
    /\ (pc = "done" /\ (hist.kind = "none" \/ (hist.kind = "table" /\ hist.len = 0)))
       => /\ raised = "none"
          /\ LastMsg = "Insufficient historical data for RV"

\* C3: for a non-empty chain that lacks some of delta, gamma, theta, vega,
\* analyze_options_greeks and analyze_vol_signals end without an exception;
\* a printed table has no column the chain lacks, and the straddle report
\* uses 0 for a missing theta.
C3_MissingGreeks ==
    (/\ pc = "done"
     /\ fn \in {"analyze_options_greeks", "analyze_vol_signals"}
     /\ df.kind = "table"
     /\ df.rows # {}
     /\ ~(Greeks \subseteq df.cols))
    => /\ raised = "none"
       /\ \A i \in 1..Len(out) :
            /\ out[i].msg = "table"
               => \A j \in 1..Len(out[i].columns) :
                     out[i].columns[j] \in Greeks => out[i].columns[j] \in df.cols
            /\ (out[i].msg = "Straddle" /\ "theta" \notin df.cols)
               => out[i].total_theta = 0

\* C4: in every entry point, once a provider call has raised, that call is the
\* last call of the run (no retry, no further fetch), the run has returned
\* without an exception, and exactly one error line has been printed, which
\* is the last line of the output.
C4_FetchFailure ==
    \A i \in 1..Len(calls) :
        calls[i].raised
        => /\ i = Len(calls)
           /\ pc = "done"
           /\ raised = "none"
           /\ LastMsg \in FetchErrorMsgs
           /\ Cardinality({j \in 1..Len(out) : out[j].msg \in FetchErrorMsgs}) = 1

\* The historical-price call of calculate_vrp raised after the chain call
\* succeeded and the 30-day IV line was printed.
C4_Witness ==
    /\ fn = "calculate_vrp"
    /\ Len(calls) = 2
    /\ ~calls[1].raised
    /\ calls[2].raised
    /\ "30-Day IV" \in Msgs
    /\ pc = "done"

\* Helpers of the properties below, written from the claims: an implied
\* volatility that is a number above 0, a strike inside a percent band of
\* the price, the sum of implied volatilities in percent, and exact tests on
\* printed values.
PosIV(r) == r.implied_volatility[2] > 0 /\ r.implied_volatility[1] > 0

Within(r, lo, hi) ==
    r.strike * 100 >= df.price * lo /\ r.strike * 100 <= df.price * hi

RECURSIVE PctSum(_)
PctSum(S) ==
    IF S = {} THEN 0
    ELSE LET r == CHOOSE x \in S : TRUE
         IN  (r.implied_volatility[1] * 100) \div r.implied_volatility[2]
             + PctSum(S \ {r})

IsNumber(x) == x[2] > 0

IsZero(x) == x[2] > 0 /\ x[1] = 0

\* x is the mean, in percent, of the implied volatilities of the rows S
IsMeanPct(x, S) == x[2] > 0 /\ x[1] * Cardinality(S) = x[2] * PctSum(S)

\* x = a - b
IsDifference(x, a, b) ==
    /\ x[2] > 0
    /\ x[1] * a[2] * b[2] = (a[1] * b[2] - b[1] * a[2]) * x[2]

\* C5: every skew line of analyze_vol_signals and of analyze_iv_surface carries
\* exactly one label, BEARISH iff skew > 2, BULLISH iff skew < -2 and NEUTRAL
\* otherwise; a skew of exactly +2 or -2 is NEUTRAL.
C5_SkewThresholds ==
    \A i \in 1..Len(out) :
        out[i].msg \in {"Skew", "IV Skew"}
        => LET s == out[i].skew
               label == out[i].direction
           IN  /\ IsNumber(s)
               /\ label \in {"BEARISH", "Bearish"} <=> s[1] > 2 * s[2]
               /\ label \in {"BULLISH", "Bullish"} <=> s[1] < -2 * s[2]
               /\ label \in {"NEUTRAL", "Neutral"}
                  <=> (s[1] <= 2 * s[2] /\ s[1] >= -2 * s[2])
               /\ label \in (IF out[i].msg = "Skew"
                             THEN {"BEARISH", "BULLISH", "NEUTRAL"}
                             ELSE {"Bearish", "Bullish", "Neutral"})

\* analyze_vol_signals printed a skew of exactly 2, labelled NEUTRAL.
C5_Witness ==
    \E i \in 1..Len(out) :
        /\ out[i].msg = "Skew"
        /\ out[i].skew[1] = 2 * out[i].skew[2]
        /\ out[i].direction = "NEUTRAL"

\* The 25-35 DTE rows within 2% of the price whose implied volatility is known.
C6Month ==
    {r \in df.rows : /\ r.dte >= 25 /\ r.dte <= 35
                     /\ Within(r, 98, 102)
                     /\ r.implied_volatility[2] > 0}

\* C6: calculate_vrp prints VRP = 30-day ATM IV - realized volatility, and
\* the signal is HIGH VRP iff VRP > 5, NEGATIVE VRP iff VRP < -5, NEUTRAL VRP
\* otherwise (so +5 and -5 are NEUTRAL); IV=25, RV=18 gives HIGH VRP, IV=20,
\* RV=26 NEGATIVE VRP and IV=22, RV=20 NEUTRAL VRP.
C6_VrpClassification ==
    \A i \in 1..Len(out) :
        out[i].msg = "VRP"
        => LET v == out[i].vrp
               iv == out[i].iv_30d
               rv == out[i].rv_30d
               high == v[2] > 0 /\ v[1] > 5 * v[2]
               negative == v[2] > 0 /\ v[1] < -5 * v[2]
           IN  /\ out[i + 1].msg = "Signal"
               /\ C6Month # {} => IsMeanPct(iv, C6Month)
               /\ rv = hist.rv
               /\ (IsNumber(iv) /\ IsNumber(rv)) => IsDifference(v, iv, rv)
               /\ out[i + 1].signal = "HIGH VRP" <=> high
               /\ out[i + 1].signal = "NEGATIVE VRP" <=> negative
               /\ out[i + 1].signal = "NEUTRAL VRP" <=> (~high /\ ~negative)
               /\ (iv = Rat(25) /\ rv = Rat(18)) => out[i + 1].signal = "HIGH VRP"
               /\ (iv = Rat(20) /\ rv = Rat(26)) => out[i + 1].signal = "NEGATIVE VRP"
               /\ (iv = Rat(22) /\ rv = Rat(20)) => out[i + 1].signal = "NEUTRAL VRP"

\* IV=25 and RV=20: a VRP of exactly +5, reported NEUTRAL.
C6_Witness ==
    \E i \in 1..Len(out) :
        /\ out[i].msg = "VRP"
        /\ out[i].iv_30d = Rat(25)
        /\ out[i].rv_30d = Rat(20)
        /\ out[i].vrp = Rat(5)
        /\ out[i + 1].signal = "NEUTRAL VRP"

\* The rows analyze_vol_signals keeps: dte >= 1 and a known, positive IV.
C7Valid == {r \in df.rows : r.dte >= 1 /\ PosIV(r)}

C7Dtes == {r.dte : r \in C7Valid}

\* The first n distinct DTE values in ascending order.
C7First(n) == {d \in C7Dtes : Cardinality({e \in C7Dtes : e < d}) < n}

C7Atm(d) == {r \in C7Valid : r.dte = d /\ Within(r, 98, 102)}

\* Those of the first six DTEs that have a non-empty ATM band.
C7WithAtm == {d \in C7First(6) : C7Atm(d) # {}}

C7Near == CHOOSE d \in C7WithAtm : \A e \in C7WithAtm : d <= e

C7Far == CHOOSE d \in C7WithAtm : \A e \in C7WithAtm : d >= e

\* The ATM IV printed for DTE d.
C7Printed(d) ==
    LET i == CHOOSE j \in 1..Len(out) : out[j].msg = "ATM IV" /\ out[j].dte = d
    IN  out[i].atm_iv

\* C7: analyze_vol_signals prints an ATM IV (the mean IV of the 98%-102%
\* band, in percent) for exactly those of the first six distinct DTEs that
\* have a non-empty ATM band.  With at least two of them it prints one
\* structure line: spread = ATM IV of the largest minus ATM IV of the
\* smallest, CONTANGO iff spread > 0 and BACKWARDATION otherwise (also for
\* spread = 0), and the swapped pair of a CONTANGO input is BACKWARDATION.
\* With fewer than two it prints no structure line.
C7_TermStructure ==
    (fn = "analyze_vol_signals" /\ "TERM STRUCTURE" \in Msgs)
    => /\ {out[i].dte : i \in {j \in 1..Len(out) : out[j].msg = "ATM IV"}}
          = C7WithAtm
       /\ \A i \in 1..Len(out) :
            out[i].msg = "ATM IV" => IsMeanPct(out[i].atm_iv, C7Atm(out[i].dte))
       /\ Cardinality({i \in 1..Len(out) : out[i].msg = "Structure"})
          = (IF Cardinality(C7WithAtm) >= 2 THEN 1 ELSE 0)
       /\ \A i \in 1..Len(out) :
            out[i].msg = "Structure"
            => LET near == C7Printed(C7Near)
                   far == C7Printed(C7Far)
                   spread == out[i].spread
               IN  /\ IsDifference(spread, far, near)
                   /\ out[i].structure = "CONTANGO" <=> spread[1] > 0
                   /\ out[i].structure = "BACKWARDATION" <=> spread[1] <= 0
                   /\ out[i].structure = "CONTANGO"
                      => Structure(Sub(near, far)) = "BACKWARDATION"

\* A chain with a seventh DTE that has an ATM band: the structure line is
\* printed from the first six only.
C7_Witness ==
    /\ fn = "analyze_vol_signals"
    /\ "Structure" \in Msgs
    /\ \E d \in C7Dtes : d \notin C7First(6) /\ C7Atm(d) # {}
    /\ \E d \in C7First(6) : C7Atm(d) = {}

\* The rows analyze_iv_surface keeps, by expiration.
C8Surface(d) ==
    {r \in df.rows : r.dte = d /\ r.dte >= 7 /\ r.dte <= 180 /\ PosIV(r)}

\* The chain carries the price column the entry point reads.
C8Priced ==
    IF fn = "analyze_iv_surface" THEN "underlying_price" \in df.cols
    ELSE {"underlying_price", "spot_price"} \cap df.cols # {}

\* C8: in analyze_iv_surface, analyze_vol_signals and calculate_vrp no
\* aggregate over an empty group raises or yields an undefined number: an
\* empty ATM band, call group or put group of the IV summary prints 0; term,
\* fly, skew and straddle lines appear only for non-empty groups and carry
\* defined numbers; and calculate_vrp prints a 30-day IV only for a non-empty
\* 30-day ATM bucket, and the no-ATM message otherwise.  (The chain carries
\* the price column the entry point reads; C1 covers the other chains.)
C8_EmptyGroups ==
    /\ (fn \in {"analyze_iv_surface", "analyze_vol_signals", "calculate_vrp"}
        /\ C8Priced)
       => raised = "none"
    /\ \A i \in 1..Len(out) :
         LET l == out[i]
         IN  /\ l.msg = "IV Summary"
                => LET rows == C8Surface(l.dte)
                       atm == {r \in rows : Within(r, 98, 102)}
                       calls_ == {r \in rows : r.option_type = "call"}
                       puts == {r \in rows : r.option_type = "put"}
                   IN  /\ IF atm = {} THEN IsZero(l.atm_iv)
                          ELSE IsMeanPct(l.atm_iv, atm)
                       /\ IF calls_ = {} THEN IsZero(l.call_iv)
                          ELSE IsMeanPct(l.call_iv, calls_)
                       /\ IF puts = {} THEN IsZero(l.put_iv)
                          ELSE IsMeanPct(l.put_iv, puts)
             /\ l.msg = "IV Skew" => IsNumber(l.skew)
             /\ l.msg = "ATM IV" => IsNumber(l.atm_iv) /\ C7Atm(l.dte) # {}
             /\ l.msg = "Structure" => IsNumber(l.spread)
             /\ l.msg = "Fly"
                => /\ IsNumber(l.fly) /\ IsNumber(l.atm_iv) /\ IsNumber(l.wings)
                   /\ \E r \in C7Atm(l.dte) : r.option_type = "call"
                   /\ \E r \in C7Valid :
                         r.dte = l.dte /\ r.option_type = "call" /\ Within(r, 103, 108)
                   /\ \E r \in C7Valid :
                         r.dte = l.dte /\ r.option_type = "put" /\ Within(r, 92, 97)
             /\ l.msg = "Skew"
                => /\ IsNumber(l.skew)
                   /\ \E r \in C7Valid :
                         r.dte = l.dte /\ r.option_type = "call" /\ Within(r, 103, 108)
                   /\ \E r \in C7Valid :
                         r.dte = l.dte /\ r.option_type = "put" /\ Within(r, 92, 97)
             /\ l.msg = "Straddle"
                => /\ IsNumber(l.straddle_cost) /\ IsNumber(l.pct_move)
                   /\ IsNumber(l.be_daily)
             /\ l.msg = "30-Day IV"
                => \E r \in df.rows : r.dte >= 25 /\ r.dte <= 35 /\ Within(r, 98, 102)
    /\ (/\ fn = "calculate_vrp"
        /\ pc = "done"
        /\ C8Priced
        /\ df.kind = "table"
        /\ df.rows # {}
        /\ ~\E r \in df.rows : r.dte >= 25 /\ r.dte <= 35 /\ Within(r, 98, 102))
       => LastMsg = "No ATM options for 30-day expiry"

\* An expiration of analyze_iv_surface with puts and no call: call IV is 0.
C8_Witness ==
    \E i \in 1..Len(out) :
        /\ out[i].msg = "IV Summary"
        /\ IsZero(out[i].call_iv)
        /\ out[i].put_iv[1] > 0
        /\ IsZero(out[i].atm_iv)

C9Rows(d) == {r \in C7Valid : r.dte = d}

\* The strikes of DTE d at the least distance from the price.
C9NearestStrikes(d) ==
    {r.strike : r \in {q \in C9Rows(d) :
        \A o \in C9Rows(d) : Abs(q.strike - df.price) <= Abs(o.strike - df.price)}}

\* The call and put that sit together on a nearest strike.
C9Pairs(d) ==
    {cp \in C9Rows(d) \X C9Rows(d) :
        /\ cp[1].option_type = "call"
        /\ cp[2].option_type = "put"
        /\ cp[1].strike = cp[2].strike
        /\ cp[1].strike \in C9NearestStrikes(d)}

\* l carries the straddle numbers of the call c and the put p.
C9IsStraddleOf(l, c, p) ==
    /\ IsNumber(l.straddle_cost) /\ IsNumber(l.pct_move) /\ IsNumber(l.be_daily)
    /\ l.straddle_cost[1] * 2 = l.straddle_cost[2] * (c.bid + c.ask + p.bid + p.ask)
    /\ l.pct_move[1] * l.straddle_cost[2] * df.price
       = l.pct_move[2] * l.straddle_cost[1] * 100
    /\ l.be_daily[1] * l.pct_move[2] * l.dte = l.be_daily[2] * l.pct_move[1]

C9StraddleLines(d) ==
    {i \in 1..Len(out) : out[i].msg = "Straddle" /\ out[i].dte = d}

\* C9: for each of the first three DTEs, analyze_vol_signals prints one
\* straddle line when a call and a put exist at the strike nearest to the
\* price, with cost = call mid + put mid, pct_move = cost / price * 100 and
\* daily breakeven = pct_move / dte (dte >= 1, so the quotient is defined);
\* it prints no straddle line for a DTE whose nearest strike lacks a call or
\* a put, and none for any other DTE.
C9_StraddleBreakeven ==
    (fn = "analyze_vol_signals" /\ "ATM STRADDLE ANALYSIS" \in Msgs)
    => /\ \A i \in 1..Len(out) :
            out[i].msg = "Straddle"
            => /\ out[i].dte \in C7First(3)
               /\ out[i].dte >= 1
               /\ \E cp \in C9Pairs(out[i].dte) : C9IsStraddleOf(out[i], cp[1], cp[2])
       /\ \A d \in C7First(3) :
            Cardinality(C9StraddleLines(d)) = (IF C9Pairs(d) # {} THEN 1 ELSE 0)

\* The valid rows of analyze_options_greeks, from the arguments of the run.
C10Valid ==
    {r \in df.rows :
        /\ args.min_dte <= r.dte
        /\ r.dte <= args.max_dte
        /\ ~(r.delta[2] # 0 /\ r.delta[1] = 0)
        /\ ~(r.delta[2] # 0 /\ r.delta[1] = r.delta[2])
        /\ ~(r.delta[2] # 0 /\ r.delta[1] = -r.delta[2])}

C10Earliest == {r \in C10Valid : \A q \in C10Valid : r.dte <= q.dte}

C10Atm(option_type) ==
    {r \in C10Earliest :
        /\ r.option_type = option_type
        /\ df.price * (100 - args.pct_range) <= r.strike * 100
        /\ r.strike * 100 <= df.price * (100 + args.pct_range)}

C10Section(i, option_type, none) ==
    IF C10Atm(option_type) = {}
    THEN out[i + 1].msg = none
    ELSE /\ out[i + 1].msg = "table"
         /\ out[i + 1].rows = C10Atm(option_type)

\* C10: analyze_options_greeks reports, under the ATM CALLS and ATM PUTS
\* headings, exactly the rows of the earliest valid expiration that have the
\* matching option type and price*(1-pct_range) <= strike <=
\* price*(1+pct_range), where the valid rows are exactly those with
\* min_dte <= dte <= max_dte and delta not 0, 1 or -1; the contract count is
\* that of the earliest valid expiration, and with no valid row no table is
\* printed.
C10_RangeFiltering ==
    (fn = "analyze_options_greeks" /\ pc \in {"plot", "done"} /\ raised = "none"
        /\ "Underlying Price" \in Msgs)
    => /\ C10Valid = {} <=> "No valid options found with Greeks data" \in Msgs
       /\ C10Valid = {} => "table" \notin Msgs
       /\ C10Valid # {} => {"ATM CALLS", "ATM PUTS", "Total contracts"} \subseteq Msgs
       /\ \A i \in 1..Len(out) :
            /\ out[i].msg = "Total contracts" => out[i].n = Cardinality(C10Earliest)
            /\ out[i].msg = "Expiration" => \A r \in C10Earliest : r.dte = out[i].dte
            /\ out[i].msg = "ATM CALLS" => C10Section(i, "call", "No ATM calls found")
            /\ out[i].msg = "ATM PUTS" => C10Section(i, "put", "No ATM puts found")
            /\ out[i].msg = "table" => out[i - 1].msg \in {"ATM CALLS", "ATM PUTS"}

\* A report whose call table holds a strike on the lower bound of the band
\* while the chain has rows the filters drop.
C10_Witness ==
    /\ fn = "analyze_options_greeks"
    /\ pc = "done"
    /\ \E i \in 1..Len(out) :
         /\ out[i].msg = "table"
         /\ \E r \in out[i].rows : r.strike * 100 = df.price * (100 - args.pct_range)
    /\ \E r \in df.rows : r \notin C10Valid
    /\ C10Earliest # C10Valid \/ \E r \in C10Earliest : r.strike < 95

PlotMsgs ==
    {"matplotlib not installed. Skipping visualization.",
     "Not enough data for surface plot", "Not enough data for visualization",
     "plt.show"}

\* The call rows the chart of the run would draw.
C11Calls ==
    IF fn = "analyze_iv_surface"
    THEN {r \in df.rows : /\ 7 <= r.dte /\ r.dte <= 180 /\ PosIV(r)
                          /\ r.option_type = "call"
                          /\ 80 * df.price <= 100 * r.strike
                          /\ 100 * r.strike <= 120 * df.price}
    ELSE {r \in C10Earliest : /\ r.option_type = "call"
                              /\ 85 * df.price <= 100 * r.strike
                              /\ 100 * r.strike <= 115 * df.price}

\* Fewer rows than the chart of the run needs.
C11TooFew ==
    IF fn = "analyze_iv_surface" THEN Cardinality(C11Calls) < 10
    ELSE C11Calls = {}

C11AfterPlot ==
    \A i \in 1..Len(out) :
        out[i].msg \in PlotMsgs
        => /\ fn \in {"analyze_iv_surface", "analyze_options_greeks"}
           /\ i = Len(out)
           /\ pc = "done"
           /\ raised = "none"
           /\ C11TooFew => out[i].msg # "plt.show"
           /\ out[i].msg \in {"Not enough data for surface plot",
                              "Not enough data for visualization"}
              => C11TooFew

C11PlotStep ==
    pc = "plot"
    => /\ pc' = "done"
       /\ raised' = "none"
       /\ Len(out') = Len(out) + 1
       /\ SubSeq(out', 1, Len(out)) = out
       /\ out'[Len(out')].msg \in PlotMsgs

\* C11: the plotting step of analyze_iv_surface and analyze_options_greeks
\* never raises and leaves the report printed before it as it was: it adds
\* one line and ends the run.  With fewer in-band call rows than the
\* minimum (10 for the IV surface, 1 for the Greeks plot) nothing is
\* rendered; the run prints a skip message, as it does when the charting
\* library is unavailable.
C11_Charting == []C11AfterPlot /\ [][C11PlotStep]_vars

\* An IV surface run with ten valid call rows of which nine are in the
\* band: the chart is skipped.
C11_Witness ==
    /\ fn = "analyze_iv_surface"
    /\ pc = "done"
    /\ LastMsg = "Not enough data for surface plot"
    /\ Cardinality(C11Calls) = 9
    /\ Cardinality(df.rows) = 10

\* The provider call each entry point makes first.
C12FirstCall ==
    CASE fn \in OptionFns -> "options.chains"
      [] fn = "analyze_perpetuals" -> "futures.info"
      [] fn = "list_instruments" -> "futures.instruments"

\* The 25-35 DTE rows of the chain with a strike within 98%-102% of the price.
C12Month ==
    {r \in df.rows : 25 <= r.dte /\ r.dte <= 35 /\ Within(r, 98, 102)}

\* Lines that need no fetched data: banners and the report of a failed call.
C12NoDataNeeded == BannerMsgs \cup FetchErrorMsgs

\* Lines computed from the historical prices.
C12HistMsgs == {"30-Day RV", "VRP", "Signal", "Insufficient historical data for RV"}

C12Calls ==
    /\ Len(calls) <= 2
    /\ pc = "done" => Len(calls) >= 1
    /\ \A i, j \in 1..Len(calls) : calls[i].api = calls[j].api => i = j
    /\ Len(calls) >= 1 => calls[1].api = C12FirstCall
    /\ Len(calls) = 2
       => /\ fn = "calculate_vrp"
          /\ calls[2].api = "equity.price.historical"
          /\ ~calls[1].raised
          /\ df.kind = "table"
          /\ df.rows # {}
          /\ C12Month # {}
    /\ \A i \in 1..Len(out) :
         /\ out[i].msg \notin C12NoDataNeeded
            => Len(calls) >= 1 /\ ~calls[1].raised
         /\ out[i].msg \in C12HistMsgs
            => Len(calls) = 2 /\ ~calls[2].raised
    /\ raised # "none" => Len(calls) >= 1 /\ ~calls[1].raised

\* A step issues at most one call and never takes one back.
C12Step ==
    \/ calls' = calls
    \/ /\ Len(calls') = Len(calls) + 1
       /\ SubSeq(calls', 1, Len(calls)) = calls

\* C12: a run of any entry point makes at least one and at most two
\* provider calls, no call twice, and each before anything is computed from
\* its data.  The second call is the historical-price call of
\* calculate_vrp, made only after the options-chain call succeeded with a
\* non-empty chain whose 25-35 DTE ATM set is non-empty.
C12_CallOrdering == []C12Calls /\ [][C12Step]_vars

\* calculate_vrp ran to its signal line on two calls, one to each provider
\* function.
C12_Witness ==
    /\ fn = "calculate_vrp"
    /\ pc = "done"
    /\ Len(calls) = 2
    /\ calls[1].api = "options.chains"
    /\ calls[2].api = "equity.price.historical"
    /\ ~calls[2].raised
    /\ "Signal" \in Msgs

====
